---- MODULE Spec2Model ----
(***************************************************************************)
(* A model of jax/_src/pallas/mosaic_gpu/pipeline.py: emit_pipeline, the   *)
(* software pipeline that overlaps GMEM<->SMEM copies with the kernel      *)
(* body.  One control thread issues the operations of the pipeline in      *)
(* program order; the copies it issues complete asynchronously.            *)
(***************************************************************************)
EXTENDS Integers, Sequences, FiniteSets, TLC

\* ------------------------------------------------------------------ bounds
MaxAxis == 4
MaxConcurrent == 3
MaxCoord == 3
MaxBlock == 3

\* Bounds of the _inc_grid specification: axis size, step count, calls chained.
MaxIncAxis == 3
MaxBy == 9
MaxCalls == 2

\* ------------------------------------------------------- sequence helpers
RECURSIVE Prod(_)
Prod(s) == IF s = <<>> THEN 1 ELSE Head(s) * Prod(Tail(s))

RECURSIVE Concat(_)
Concat(ss) == IF ss = <<>> THEN <<>> ELSE Head(ss) \o Concat(Tail(ss))

Zeros(n) == [a \in 1..n |-> 0]

\* ------------------------------------------------------------ _inc_grid
\* One axis of _inc_grid: idx already holds idx + carry.
IncAxisFastNoCarry(idx, size) == IF idx < size THEN <<idx, 0>> ELSE <<idx - size, 0>>

IncAxisFast(idx, size) == IF idx < size THEN <<idx, 0>> ELSE <<idx - size, 1>>

IncAxisSlowNoCarry(idx, size) == <<idx % size, 0>>

IncAxisSlow(idx, size) == <<idx % size, idx \div size>>

IncAxisWideFast(idx, size) ==
  IF idx < 3 * size THEN IncAxisFast(idx, size) ELSE IncAxisSlow(idx, size)

IncAxis(idx, size) ==
  IF idx < 2 * size THEN IncAxisFast(idx, size) ELSE IncAxisSlow(idx, size)

\* Axes k, k-1, .. 1 are processed in that order (reversed(zip(indices, grid))).
RECURSIVE IncGridFrom(_, _, _, _)
IncGridFrom(indices, grid_, k, carry) ==
  IF k = 0 THEN <<>>
  ELSE LET r == IncAxis(indices[k] + carry, grid_[k])
       IN  Append(IncGridFrom(indices, grid_, k - 1, r[2]), r[1])

inc_grid(indices, grid_, by) == IncGridFrom(indices, grid_, Len(grid_), by)

\* The k-th element (from 0) of itertools.product(*map(range, grid)).
RECURSIVE product(_, _)
product(grid_, k) ==
  IF grid_ = <<>> THEN <<>>
  ELSE LET n == Len(grid_)
       IN  Append(product(SubSeq(grid_, 1, n - 1), k \div grid_[n]), k % grid_[n])

\* ------------------------------------------------------------ BlockSpec
\* An index map is one component per block dimension.  The components are
\* the index maps the model runs the pipeline with.
RECURSIVE Linear(_, _)
Linear(indices, grid_) ==
  IF grid_ = <<>> THEN 0
  ELSE LET n == Len(grid_)
       IN  Linear(SubSeq(indices, 1, n - 1), SubSeq(grid_, 1, n - 1)) * grid_[n]
             + indices[n]

IndexMapComponent(c, indices, grid_) ==
  CASE c = "const"   -> 0
    [] c = "lin"     -> Linear(indices, grid_)
    [] c = "half"    -> Linear(indices, grid_) \div 2
    [] c = "mulzero" -> indices[Len(indices)] * 0
    [] c = "first"   -> indices[1]
    [] c = "last"    -> indices[Len(indices)]

index_map(spec, indices, grid_) ==
  [d \in 1..Len(spec.index_map) |->
     IndexMapComponent(spec.index_map[d], indices, grid_)]

\* _uses_arguments: whether the traced index map reads any grid index.
uses_arguments(spec) == \E d \in 1..Len(spec.index_map) : spec.index_map[d] # "const"

Slice(start, size) == [start |-> start, size |-> size]

compute_gmem_slice(spec, grid_, grid_indices) ==
  [d \in 1..Len(spec.block_shape) |->
     Slice(index_map(spec, grid_indices, grid_)[d] * spec.block_shape[d],
           spec.block_shape[d])]

is_index_invariant(spec) == ~uses_arguments(spec)

\* _Slice.__eq__
SliceEq(a, b) == a.start = b.start /\ a.size = b.size

\* --------------------------------------------------- pipeline arguments
\* The block specifications the pipeline is built with.
SpecLin == [block_shape |-> <<1>>, index_map |-> <<"lin">>]
SpecHalf == [block_shape |-> <<2>>, index_map |-> <<"half">>]
SpecConst == [block_shape |-> <<2>>, index_map |-> <<"const">>]
SpecMulZero == [block_shape |-> <<1>>, index_map |-> <<"mulzero">>]
SpecLast == [block_shape |-> <<1>>, index_map |-> <<"last">>]
SpecRowCol == [block_shape |-> <<2, 1>>, index_map |-> <<"first", "last">>]

Grids == {<<n>> : n \in 1..MaxAxis} \cup {<<1, 2>>, <<2, 2>>, <<3, 1>>, <<2, 3>>}

InSpecChoices == {<<>>, <<SpecLin>>, <<SpecLin, SpecConst>>}

OutSpecChoices ==
  {<<>>, <<SpecLin>>, <<SpecHalf>>, <<SpecConst>>, <<SpecMulZero>>, <<SpecLast>>,
   <<SpecRowCol>>, <<SpecConst, SpecHalf>>, <<SpecLin, SpecConst>>,
   <<SpecConst, SpecConst>>, <<SpecHalf, SpecLin>>}

VARIABLES
  grid,                  \* emit_pipeline(grid=...)
  requested,             \* emit_pipeline(max_concurrent_steps=...) as passed
  max_concurrent_steps,  \* the value after the shrink at build time
  in_specs, out_specs,   \* emit_pipeline(in_specs=..., out_specs=...)
  pc,                    \* position of the control thread
  step, indices, last_store_slices,  \* fori_loop counter and carry
  in_smem, out_smem,     \* scratch slots, per operand and slot
  out_gmem,              \* output bulk arrays, per operand and region
  barrier,               \* per slot: arrivals not yet consumed by a wait
  in_flight,             \* GMEM->SMEM copies issued and not yet complete
  out_pending,           \* SMEM->GMEM copies issued and not yet complete
  out_issued,            \* number of SMEM->GMEM copy groups issued so far
  stored,                \* SMEM->GMEM copies that have landed, with the tile each carried
  ops                    \* the operations issued so far, in program order

vars ==
  <<grid, requested, max_concurrent_steps, in_specs, out_specs, pc, step, indices,
    last_store_slices, in_smem, out_smem, out_gmem, barrier, in_flight,
    out_pending, out_issued, stored, ops>>

args == <<grid, requested, max_concurrent_steps, in_specs, out_specs>>

num_steps == Prod(grid)

NumIn == Len(in_specs)

NumOut == Len(out_specs)

\* loop_body: slot = step % max_concurrent_steps
SlotNext(st, mcs) == (st + 1) % mcs

Slot(st, mcs) == st % mcs

slot == Slot(step, max_concurrent_steps)

\* ------------------------------------------------------------ memory
\* Content of tile `slices` of the bulk array of input operand i.
InBulk(i, slices) == <<i, slices>>

NoData == <<>>

\* What the body leaves in an output slot: the step it ran at and the
\* contents of the input slots it was given.
Tile(s, data) == [step |-> s, data |-> data]

NoTile == Tile(-1, NoData)

GridPoints == {product(grid, k) : k \in 0..(num_steps - 1)}

OutRegions(o) == {compute_gmem_slice(out_specs[o], grid, g) : g \in GridPoints}

\* ------------------------------------------------------------ operations
\* One issued operation, as the control thread emits it.
Op(op, at, st, bref, sl, slices, predicate, arg) ==
  [op |-> op, at |-> at, step |-> st, bref |-> bref, slot |-> sl,
   slices |-> slices, predicate |-> predicate, arg |-> arg]

Predicate(b) == IF b THEN "True" ELSE "False"

Performed(e) == e.predicate # "False"

\* emit_pipeline: shrink max_concurrent_steps to the number of steps.
ClampNone(requested_, n) == requested_

ClampSteps(requested_, n) == IF requested_ > n THEN n ELSE requested_

Init ==
  /\ grid \in Grids
  /\ requested \in 1..MaxConcurrent
  /\ max_concurrent_steps = ClampSteps(requested, Prod(grid))
  /\ in_specs \in InSpecChoices
  /\ out_specs \in OutSpecChoices
  /\ pc = "pipeline"
  /\ step = 0
  /\ indices = <<>>
  /\ last_store_slices = <<>>
  /\ in_smem = <<>>
  /\ out_smem = <<>>
  /\ out_gmem = [o \in 1..NumOut |-> [r \in OutRegions(o) |-> NoTile]]
  /\ barrier = <<>>
  /\ in_flight = {}
  /\ out_pending = {}
  /\ out_issued = 0
  /\ stored = {}
  /\ ops = <<>>

\* gpu_core.Barrier(len(in_specs), ...): arrivals that complete one barrier.
BarrierArrivalsOnce(n_in) == IF n_in > 0 THEN 1 ELSE 0

BarrierArrivals(n_in) == n_in

\* pipeline(): the scratch slots and the barriers it allocates.
AllocOps(mcs) ==
  [i \in 1..NumIn |->
     Op("SMEM", "pipeline", 0, i, 0, <<>>, "None", <<mcs>> \o in_specs[i].block_shape)]
  \o [o \in 1..NumOut |->
     Op("SMEM", "pipeline", 0, NumIn + o, 0, <<>>, "None",
        <<mcs>> \o out_specs[o].block_shape)]
  \o <<Op("Barrier", "pipeline", 0, 0, 0, <<>>, "None", <<BarrierArrivals(NumIn), mcs>>)>>

Pipeline ==
  /\ pc = "pipeline"
  /\ in_smem' = [i \in 1..NumIn |-> [k \in 0..(max_concurrent_steps - 1) |-> NoData]]
  /\ out_smem' = [o \in 1..NumOut |-> [k \in 0..(max_concurrent_steps - 1) |-> NoTile]]
  /\ barrier' = [k \in 0..(max_concurrent_steps - 1) |-> 0]
  /\ ops' = ops \o AllocOps(max_concurrent_steps)
  /\ pc' = "prologue"
  /\ UNCHANGED <<stored, args, step, indices, last_store_slices, out_gmem, in_flight,
                 out_pending, out_issued>>

\* BufferedRef.copy_in for the tile of step `fetch`.
copy_in(at, i, sl, fetch, grid_indices) ==
  Op("copy_in", at, fetch, i, sl, compute_gmem_slice(in_specs[i], grid, grid_indices),
     "None", grid_indices)

\* BufferedRef.copy_out
copy_out(at, st, o, sl, grid_indices, predicate) ==
  Op("copy_out", at, st, o, sl, compute_gmem_slice(out_specs[o], grid, grid_indices),
     predicate, grid_indices)

\* The GMEM->SMEM copy an issued copy_in starts.
Inbound(e) == [bref |-> e.bref, slot |-> e.slot, step |-> e.step, slices |-> e.slices]

\* it.islice(it.product(...), max_concurrent_steps)
PrologueStepsOneLess(mcs, n) == (IF mcs < n THEN mcs ELSE n) - 1

PrologueSteps(mcs, n) == IF mcs < n THEN mcs ELSE n

PrologueOps(mcs) ==
  Concat([j \in 1..PrologueSteps(mcs, num_steps) |->
            [i \in 1..NumIn |-> copy_in("prologue", i, j - 1, j - 1, product(grid, j - 1))]])

\* The seed of the destination-slice record of one output.
SeedFirstTile(spec) == [d \in 1..Len(spec.block_shape) |-> Slice(0, spec.block_shape[d])]

SeedSlices(spec) == [d \in 1..Len(spec.block_shape) |-> Slice(-1, -1)]

None == <<>>

InitialStoreSlices ==
  [o \in 1..NumOut |->
     IF is_index_invariant(out_specs[o]) THEN None ELSE SeedSlices(out_specs[o])]

LoopHead == IF in_specs # <<>> THEN "barrier_wait" ELSE "wait_smem_to_gmem"

Prologue ==
  /\ pc = "prologue"
  /\ LET new_ops == PrologueOps(max_concurrent_steps)
     IN  /\ in_flight' = in_flight \cup {Inbound(new_ops[k]) : k \in 1..Len(new_ops)}
         /\ ops' = ops \o new_ops
  /\ step' = 0
  /\ indices' = Zeros(Len(grid))
  /\ last_store_slices' = InitialStoreSlices
  /\ pc' = LoopHead
  /\ UNCHANGED <<stored, args, in_smem, out_smem, out_gmem, barrier, out_pending, out_issued>>

\* gpu_primitives.barrier_wait(barrier_ref.at[slot]), issued when there are inputs
BarrierWaitOps(st, mcs) ==
  IF in_specs # <<>>
  THEN <<Op("barrier_wait", "loop", st, 0, Slot(st, mcs), <<>>, "None", <<>>)>>
  ELSE <<>>

BarrierWait ==
  /\ pc = "barrier_wait"
  /\ barrier[slot] >= BarrierArrivals(NumIn)
  /\ barrier' = [barrier EXCEPT ![slot] = @ - BarrierArrivals(NumIn)]
  /\ ops' = ops \o BarrierWaitOps(step, max_concurrent_steps)
  /\ pc' = "wait_smem_to_gmem"
  /\ UNCHANGED <<stored, args, step, indices, last_store_slices, in_smem, out_smem, out_gmem,
                 in_flight, out_pending, out_issued>>

\* wait_smem_to_gmem(n) returns once every copy group but the n issued last
\* is complete.
Drained(n) == \A t \in out_pending : t.seq > out_issued - n

\* loop_body: wait_smem_to_gmem(max_concurrent_steps - 1)
LoopWaitAll(mcs) == mcs

LoopWait(mcs) == mcs - 1

\* scoped_pipeline: wait_smem_to_gmem(0)
FinalWaitAsLoop(mcs) == mcs - 1

FinalWait(mcs) == 0

WaitSmemToGmemOps(at, st, n) ==
  <<Op("wait_smem_to_gmem", at, st, 0, 0, <<>>, "None", <<n>>)>>

WaitSmemToGmem ==
  /\ pc = "wait_smem_to_gmem"
  /\ Drained(LoopWait(max_concurrent_steps))
  /\ ops' = ops \o WaitSmemToGmemOps("loop", step, LoopWait(max_concurrent_steps))
  /\ pc' = "body"
  /\ UNCHANGED <<stored, args, step, indices, last_store_slices, in_smem, out_smem, out_gmem,
                 barrier, in_flight, out_pending, out_issued>>

\* body(*(bref.smem_ref.at[slot] for bref in chain(in_brefs, out_brefs)))
BodyOps(st, mcs, grid_indices) ==
  <<Op("body", "loop", st, 0, Slot(st, mcs), <<>>, "None", grid_indices)>>

Body ==
  /\ pc = "body"
  /\ out_smem' = [o \in 1..NumOut |->
                    [out_smem[o] EXCEPT
                       ![slot] = Tile(step, [i \in 1..NumIn |-> in_smem[i][slot]])]]
  /\ ops' = ops \o BodyOps(step, max_concurrent_steps, indices)
  /\ pc' = "store"
  /\ UNCHANGED <<stored, args, step, indices, last_store_slices, in_smem, out_gmem, barrier,
                 in_flight, out_pending, out_issued>>

AnyInvariant == \E o \in 1..NumOut : is_index_invariant(out_specs[o])

AllInvariant == \A o \in 1..NumOut : is_index_invariant(out_specs[o])

\* Outputs the loop stores, and those the epilogue stores, in the order of
\* out_brefs.
LoopOutputs == SelectSeq([o \in 1..NumOut |-> o],
                         LAMBDA o : ~is_index_invariant(out_specs[o]))

EpilogueOutputs == SelectSeq([o \in 1..NumOut |-> o],
                             LAMBDA o : is_index_invariant(out_specs[o]))

slices_changed_every_dim(old, new) == \A d \in 1..Len(new) : ~SliceEq(old[d], new[d])

slices_changed(old, new) == ~(\A d \in 1..Len(new) : SliceEq(old[d], new[d]))

is_last_step(st, n) == st = n - 1

StorePredicateChangedOnly(changed, last) == changed

StorePredicate(changed, last) == changed \/ last

CommitOps(at, st, issue) ==
  IF issue THEN <<Op("commit_smem", at, st, 0, 0, <<>>, "None", <<>>)>> ELSE <<>>

new_store_slices(grid_indices, last) ==
  [o \in 1..NumOut |->
     IF is_index_invariant(out_specs[o]) THEN last[o]
     ELSE compute_gmem_slice(out_specs[o], grid, grid_indices)]

\* The commit and the copy_out calls of one iteration of loop_body.
StoreOps(st, mcs, grid_indices, last) ==
  CommitOps("loop", st, ~AllInvariant)
  \o [k \in 1..Len(LoopOutputs) |->
        LET o == LoopOutputs[k]
        IN  copy_out("loop", st, o, Slot(st, mcs), grid_indices,
              Predicate(StorePredicate(
                slices_changed(last[o], new_store_slices(grid_indices, last)[o]),
                is_last_step(st, num_steps))))]

CopyOuts(new_ops) == SelectSeq(new_ops, LAMBDA e : e.op = "copy_out")

\* The SMEM->GMEM copy groups a batch of copy_out calls starts: every call
\* makes a group, a call whose predicate is false an empty one.
Outbound(new_ops) ==
  {[seq |-> out_issued + k, bref |-> CopyOuts(new_ops)[k].bref,
    slot |-> CopyOuts(new_ops)[k].slot, step |-> CopyOuts(new_ops)[k].step,
    slices |-> CopyOuts(new_ops)[k].slices] :
     k \in {j \in 1..Len(CopyOuts(new_ops)) : Performed(CopyOuts(new_ops)[j])}}

Store ==
  /\ pc = "store"
  /\ LET new_ops == StoreOps(step, max_concurrent_steps, indices, last_store_slices)
     IN  /\ out_pending' = out_pending \cup Outbound(new_ops)
         /\ out_issued' = out_issued + Len(CopyOuts(new_ops))
         /\ ops' = ops \o new_ops
  /\ last_store_slices' = new_store_slices(indices, last_store_slices)
  /\ pc' = "fetch"
  /\ UNCHANGED <<stored, args, step, indices, in_smem, out_smem, out_gmem, barrier, in_flight>>

FetchSlotNext(sl, mcs) == (sl + 1) % mcs

FetchSlot(sl, mcs) == sl

FetchCondInclusive(fetch_step, n) == fetch_step <= n

FetchCond(fetch_step, n) == fetch_step < n

FetchOps(st, mcs, grid_indices) ==
  IF FetchCond(st + mcs, num_steps)
  THEN [i \in 1..NumIn |->
          copy_in("loop", i, FetchSlot(Slot(st, mcs), mcs), st + mcs,
                  inc_grid(grid_indices, grid, mcs))]
  ELSE <<>>

Fetch ==
  /\ pc = "fetch"
  /\ LET new_ops == FetchOps(step, max_concurrent_steps, indices)
     IN  /\ in_flight' = in_flight \cup {Inbound(new_ops[k]) : k \in 1..Len(new_ops)}
         /\ ops' = ops \o new_ops
  /\ indices' = inc_grid(indices, grid, 1)
  /\ step' = step + 1
  /\ pc' = IF step + 1 < num_steps THEN LoopHead ELSE "epilogue"
  /\ UNCHANGED <<stored, args, last_store_slices, in_smem, out_smem, out_gmem, barrier,
                 out_pending, out_issued>>

LastSlotNext(n, mcs) == n % mcs

LastSlot(n, mcs) == (n - 1) % mcs

EpilogueOps(mcs) ==
  CommitOps("epilogue", num_steps, AllInvariant)
  \o [k \in 1..Len(EpilogueOutputs) |->
        copy_out("epilogue", num_steps, EpilogueOutputs[k], LastSlot(num_steps, mcs),
                 Zeros(Len(grid)), "None")]

Epilogue ==
  /\ pc = "epilogue"
  /\ LET new_ops == EpilogueOps(max_concurrent_steps)
     IN  /\ out_pending' = out_pending \cup Outbound(new_ops)
         /\ out_issued' = out_issued + Len(CopyOuts(new_ops))
         /\ ops' = ops \o new_ops
  /\ pc' = "finalize"
  /\ UNCHANGED <<stored, args, step, indices, last_store_slices, in_smem, out_smem, out_gmem,
                 barrier, in_flight>>

\* gpu_primitives.wait_smem_to_gmem(0)
Finalize ==
  /\ pc = "finalize"
  /\ Drained(FinalWait(max_concurrent_steps))
  /\ ops' = ops \o WaitSmemToGmemOps("epilogue", num_steps, FinalWait(max_concurrent_steps))
  /\ pc' = "done"
  /\ UNCHANGED <<stored, args, step, indices, last_store_slices, in_smem, out_smem, out_gmem,
                 barrier, in_flight, out_pending, out_issued>>

\* A GMEM->SMEM copy lands in its slot and arrives on the slot's barrier.
CompleteIn ==
  \E t \in in_flight :
    /\ in_flight' = in_flight \ {t}
    /\ in_smem' = [in_smem EXCEPT ![t.bref][t.slot] = InBulk(t.bref, t.slices)]
    /\ barrier' = [barrier EXCEPT ![t.slot] = @ + 1]
    /\ UNCHANGED <<stored, args, pc, step, indices, last_store_slices, out_smem, out_gmem,
                   out_pending, out_issued, ops>>

\* A SMEM->GMEM copy lands in its bulk region.
CompleteOut ==
  \E t \in out_pending :
    /\ out_pending' = out_pending \ {t}
    /\ out_gmem' = [out_gmem EXCEPT ![t.bref][t.slices] = out_smem[t.bref][t.slot]]
    /\ stored' = stored \cup {[bref |-> t.bref, slices |-> t.slices, step |-> t.step,
                                tile |-> out_smem[t.bref][t.slot]]}
    /\ UNCHANGED <<args, pc, step, indices, last_store_slices, in_smem, out_smem,
                   barrier, in_flight, out_issued, ops>>

Next ==
  \/ Pipeline
  \/ Prologue
  \/ BarrierWait
  \/ WaitSmemToGmem
  \/ Body
  \/ Store
  \/ Fetch
  \/ Epilogue
  \/ Finalize
  \/ CompleteIn
  \/ CompleteOut

Spec == Init /\ [][Next]_vars

\* The control thread: the straight-line program of pipeline().
Control ==
  \/ Pipeline
  \/ Prologue
  \/ BarrierWait
  \/ WaitSmemToGmem
  \/ Body
  \/ Store
  \/ Fetch
  \/ Epilogue
  \/ Finalize

\* The control thread keeps running when it is not blocked, and every issued
\* copy eventually completes.
FairSpec ==
  Spec /\ WF_vars(Control) /\ WF_vars(CompleteIn) /\ WF_vars(CompleteOut)

\* ------------------------------------------------ the whole run, as issued
\* The loop-carried values on entry to iteration s of lax.fori_loop.
RECURSIVE IndicesAt(_)
IndicesAt(s) == IF s = 0 THEN Zeros(Len(grid)) ELSE inc_grid(IndicesAt(s - 1), grid, 1)

RECURSIVE StoreSlicesAt(_)
StoreSlicesAt(s) ==
  IF s = 0 THEN InitialStoreSlices
  ELSE new_store_slices(IndicesAt(s - 1), StoreSlicesAt(s - 1))

\* The operations of iteration s of loop_body, in program order.
loop_body(s, mcs) ==
  BarrierWaitOps(s, mcs)
  \o WaitSmemToGmemOps("loop", s, LoopWait(mcs))
  \o BodyOps(s, mcs, IndicesAt(s))
  \o StoreOps(s, mcs, IndicesAt(s), StoreSlicesAt(s))
  \o FetchOps(s, mcs, IndicesAt(s))

\* The operations of the pipeline emit_pipeline builds for one requested
\* max_concurrent_steps.
emit_pipeline(requested_) ==
  LET mcs == ClampSteps(requested_, num_steps)
  IN  AllocOps(mcs)
      \o PrologueOps(mcs)
      \o Concat([s \in 1..num_steps |-> loop_body(s - 1, mcs)])
      \o EpilogueOps(mcs)
      \o WaitSmemToGmemOps("epilogue", num_steps, FinalWait(mcs))

\* ------------------------------------------------------------ properties
\* Bodies executed so far.
BodiesDone == IF pc \in {"store", "fetch"} THEN step + 1 ELSE step

IsPrefix(a, b) == Len(a) <= Len(b) /\ a = SubSeq(b, 1, Len(a))

NonInvariantOutputs == {o \in 1..NumOut : ~is_index_invariant(out_specs[o])}

InvariantOutputs == {o \in 1..NumOut : is_index_invariant(out_specs[o])}

\* The copy_out calls of the loop for output o, one per step so far.
LoopStores(o) ==
  SelectSeq(ops, LAMBDA e : e.op = "copy_out" /\ e.at = "loop" /\ e.bref = o)

AllStores(o) == SelectSeq(ops, LAMBDA e : e.op = "copy_out" /\ e.bref = o)

CopyIns == SelectSeq(ops, LAMBDA e : e.op = "copy_in")

\* Position k of L is the last step that targets its region.
LastToRegion(L, k) == \A j \in (k + 1)..Len(L) : L[j].slices # L[k].slices

PerformedCount(L) == Cardinality({k \in 1..Len(L) : Performed(L[k])})

\* Maximal runs of consecutive steps with the same destination region.
Runs(L) == Cardinality({k \in 1..Len(L) : k = 1 \/ L[k].slices # L[k - 1].slices})

\* C1: once the pipeline is done, for every output that is not
\* index-invariant and every region it targets, the copy_out the loop issued
\* at the last step that targets the region had a true predicate.
C1_LastStoreToRegionPerformed ==
  pc = "done" =>
    \A o \in NonInvariantOutputs :
      \A k \in 1..Len(LoopStores(o)) :
        LastToRegion(LoopStores(o), k) => Performed(LoopStores(o)[k])

\* The destination region of output o at step s.
RegionAt(o, s) == compute_gmem_slice(out_specs[o], grid, IndicesAt(s))

\* The last step of the run of consecutive steps on one region that holds s.
RunEnd(o, s) ==
  CHOOSE e \in s..(num_steps - 1) :
    /\ \A j \in s..e : RegionAt(o, j) = RegionAt(o, s)
    /\ e = num_steps - 1 \/ RegionAt(o, e + 1) # RegionAt(o, s)

\* C2: a write that lands in a region of an output that is not
\* index-invariant, issued in a run of steps that is followed by a step on
\* another region, carries the tile the body computed at the last step of the
\* run; and once the pipeline is done, every region holds the tile computed
\* at the last step that targeted it.
C2_RegionHoldsLastTile ==
  /\ \A w \in stored :
       (w.bref \in NonInvariantOutputs /\ RunEnd(w.bref, w.step) < num_steps - 1)
         => w.tile.step = RunEnd(w.bref, w.step)
  /\ pc = "done" =>
       \A o \in NonInvariantOutputs :
         \A k \in 1..Len(LoopStores(o)) :
           LastToRegion(LoopStores(o), k) =>
             out_gmem[o][LoopStores(o)[k].slices].step = LoopStores(o)[k].step

\* C3 as stated: once the pipeline is done, the number of performed copy_out
\* calls of an output that is not index-invariant equals the number of
\* maximal runs of consecutive steps with the same destination region.
C3_OneStorePerRun ==
  pc = "done" =>
    \A o \in NonInvariantOutputs : PerformedCount(LoopStores(o)) = Runs(LoopStores(o))

FinalRunIsLong(L) == Len(L) >= 2 /\ L[Len(L)].slices = L[Len(L) - 1].slices

\* C3 as amended: once the pipeline is done, the number of performed copy_out
\* calls of an output that is not index-invariant equals the number of
\* maximal runs, plus one when the final run has more than one step (its
\* first step and the final step are both stored).
C3_OneStorePerRunPlusFinal ==
  pc = "done" =>
    \A o \in NonInvariantOutputs :
      PerformedCount(LoopStores(o)) =
        Runs(LoopStores(o)) + (IF FinalRunIsLong(LoopStores(o)) THEN 1 ELSE 0)

C3_Witness ==
  /\ pc = "done"
  /\ max_concurrent_steps >= 2
  /\ \E o \in NonInvariantOutputs :
       /\ Len(LoopStores(o)) = 4
       /\ Runs(LoopStores(o)) = 2
       /\ FinalRunIsLong(LoopStores(o))
       /\ PerformedCount(LoopStores(o)) = 3

\* The index map sends each grid step to its own tile.
Injective(spec) ==
  \A g \in GridPoints : \A h \in GridPoints :
    g # h => compute_gmem_slice(spec, grid, g) # compute_gmem_slice(spec, grid, h)

\* C4: with one input and one output whose index maps send each grid step to
\* its own tile, once the pipeline is done the output tile of every grid step
\* holds the input tile of that step, as the body copied it.
C4_IdentityRoundTrip ==
  (pc = "done" /\ NumIn = 1 /\ NumOut = 1
     /\ Injective(in_specs[1]) /\ Injective(out_specs[1])) =>
    \A g \in GridPoints :
      out_gmem[1][compute_gmem_slice(out_specs[1], grid, g)].data
        = <<InBulk(1, compute_gmem_slice(in_specs[1], grid, g))>>

C4_Witness ==
  /\ pc = "done"
  /\ grid = <<4>>
  /\ max_concurrent_steps = 1
  /\ in_specs = <<SpecLin>>
  /\ out_specs = <<SpecLin>>
  /\ \A g \in GridPoints :
       out_gmem[1][compute_gmem_slice(SpecLin, grid, g)].data
         = <<InBulk(1, compute_gmem_slice(SpecLin, grid, g))>>

\* C5: an index-invariant output has no copy_out inside the loop and exactly
\* one in the epilogue, without a predicate, from slot (num_steps - 1) mod
\* max_concurrent_steps and with the all-zero grid indices.
C5_InvariantStoredOnce ==
  \A o \in InvariantOutputs :
    /\ LoopStores(o) = <<>>
    /\ Len(AllStores(o)) <= 1
    /\ pc \in {"pipeline", "prologue", "barrier_wait", "wait_smem_to_gmem", "body",
               "store", "fetch", "epilogue"} => AllStores(o) = <<>>
    /\ pc \in {"finalize", "done"} =>
         /\ Len(AllStores(o)) = 1
         /\ AllStores(o)[1].at = "epilogue"
         /\ AllStores(o)[1].predicate = "None"
         /\ AllStores(o)[1].slot = (num_steps - 1) % max_concurrent_steps
         /\ AllStores(o)[1].arg = Zeros(Len(grid))
         /\ AllStores(o)[1].slices = compute_gmem_slice(out_specs[o], grid, Zeros(Len(grid)))

C5_Witness ==
  /\ pc = "done"
  /\ grid = <<3>>
  /\ max_concurrent_steps = 2
  /\ out_specs = <<SpecConst, SpecHalf>>
  /\ Len(AllStores(1)) = 1
  /\ out_gmem[1][AllStores(1)[1].slices].step = 2

\* C6: the copy_out the loop issues at step num_steps - 1 for an output that
\* is not index-invariant always has a true predicate.
C6_FinalStepStored ==
  \A k \in 1..Len(ops) :
    (ops[k].op = "copy_out" /\ ops[k].at = "loop" /\ ops[k].step = num_steps - 1)
      => ops[k].predicate = "True"

C6_Witness ==
  \E o \in NonInvariantOutputs :
    /\ Len(LoopStores(o)) = num_steps
    /\ FinalRunIsLong(LoopStores(o))
    /\ LoopStores(o)[num_steps].predicate = "True"
    /\ ~Performed(LoopStores(o)[num_steps - 1])

\* C7: the copy_out the loop issues at step 0 always has a true predicate;
\* the seeded record differs from the region of every grid step, and a seed
\* slice equals no slice compute_gmem_slice builds from a block coordinate
\* and a positive block size.
C7_FirstStepStored ==
  /\ \A k \in 1..Len(ops) :
       (ops[k].op = "copy_out" /\ ops[k].at = "loop" /\ ops[k].step = 0)
         => ops[k].predicate = "True"
  /\ \A o \in NonInvariantOutputs : \A g \in GridPoints :
       slices_changed(SeedSlices(out_specs[o]), compute_gmem_slice(out_specs[o], grid, g))
  /\ \A c \in (0 - MaxCoord)..MaxCoord : \A b \in 1..MaxBlock :
       ~SliceEq(SeedSlices([block_shape |-> <<b>>])[1], Slice(c * b, b))

C7_Witness ==
  /\ num_steps >= 2
  /\ \E o \in NonInvariantOutputs :
       /\ Len(LoopStores(o)) >= 1
       /\ LoopStores(o)[1].step = 0
       /\ LoopStores(o)[1].slices[1].start = 0
       /\ LoopStores(o)[1].predicate = "True"

\* C8: the pipeline never issues more than num_steps * len(in_specs) copy_in
\* calls, and once it is done it has issued exactly that many: one per grid
\* step and input, for the tile of that step.
C8_InboundCount ==
  /\ Len(CopyIns) <= num_steps * NumIn
  /\ pc = "done" =>
       /\ Len(CopyIns) = num_steps * NumIn
       /\ \A s \in 0..(num_steps - 1) : \A i \in 1..NumIn :
            Cardinality({k \in 1..Len(CopyIns) :
                           /\ CopyIns[k].step = s
                           /\ CopyIns[k].bref = i
                           /\ CopyIns[k].slot = s % max_concurrent_steps
                           /\ CopyIns[k].slices
                                = compute_gmem_slice(in_specs[i], grid, product(grid, s))})
              = 1

C8_Witness ==
  /\ pc = "done"
  /\ NumIn = 2
  /\ num_steps = 6
  /\ max_concurrent_steps = 2
  /\ Len(CopyIns) = 12

\* C9: a pipeline built with max_concurrent_steps above num_steps issues the
\* operations of the pipeline built with max_concurrent_steps = num_steps, in
\* the same order.
C9_ClampTransparent ==
  requested > num_steps =>
    /\ IsPrefix(ops, emit_pipeline(num_steps))
    /\ pc = "done" => ops = emit_pipeline(num_steps)

C9_Witness ==
  /\ pc = "done"
  /\ requested > num_steps
  /\ num_steps = 2
  /\ NumIn = 2
  /\ out_specs = <<SpecConst, SpecHalf>>
  /\ ops = emit_pipeline(num_steps)

\* Position of the body call of step s in ops, 0 when not yet issued.
BodyAt(s) ==
  IF \E k \in 1..Len(ops) : ops[k].op = "body" /\ ops[k].step = s
  THEN CHOOSE k \in 1..Len(ops) : ops[k].op = "body" /\ ops[k].step = s
  ELSE 0

\* C10: a copy into an input slot is issued, and is in flight, only after the
\* body of every earlier step that reads the slot has run; the body never
\* runs while a copy for a later step into its slot is in flight.
C10_PrefetchAfterRead ==
  /\ \A t \in in_flight :
       \A s \in 0..(t.step - 1) : s % max_concurrent_steps = t.slot => s < BodiesDone
  /\ \A k \in 1..Len(ops) :
       ops[k].op = "copy_in" =>
         \A s \in 0..(ops[k].step - 1) :
           s % max_concurrent_steps = ops[k].slot => (0 < BodyAt(s) /\ BodyAt(s) < k)
  /\ pc = "body" => \A t \in in_flight : t.slot = slot => t.step <= step

C10_Witness ==
  /\ pc = "body"
  /\ step >= 1
  /\ max_concurrent_steps >= 2
  /\ \E t \in in_flight : t.step >= max_concurrent_steps /\ t.slot # slot

Bodies == SelectSeq(ops, LAMBDA e : e.op = "body")

InLoop == pc \in {"barrier_wait", "wait_smem_to_gmem", "body", "store", "fetch"}

\* C11: the body is called once per step, in step order, with the loop-carried
\* grid indices equal to the s-th element of itertools.product over the grid
\* at step s; once the pipeline is done it has been called num_steps times and
\* every grid coordinate has been visited exactly once.
C11_BodyOncePerCoordinate ==
  /\ \A k \in 1..Len(Bodies) :
       /\ Bodies[k].step = k - 1
       /\ Bodies[k].arg = product(grid, k - 1)
  /\ Len(Bodies) <= num_steps
  /\ InLoop => (indices = product(grid, step) /\ Len(Bodies) = BodiesDone)
  /\ pc = "done" =>
       /\ Len(Bodies) = num_steps
       /\ \A g \in GridPoints :
            Cardinality({k \in 1..Len(Bodies) : Bodies[k].arg = g}) = 1

C11_Witness ==
  /\ pc = "done"
  /\ grid = <<2, 3>>
  /\ Len(Bodies) = 6
  /\ Bodies[4].arg = <<1, 0>>
  /\ Bodies[6].arg = <<1, 2>>

AllCopyOuts == SelectSeq(ops, LAMBDA e : e.op = "copy_out")

\* Performed write-backs that have landed in bulk memory, as (operand, step).
Landed == {<<w.bref, w.step>> : w \in stored}

\* C12: when the pipeline has returned, no outbound transfer is outstanding:
\* every performed copy_out of the loop and of the epilogue has landed, the
\* last operation is the wait for zero outstanding write-backs, and no
\* transfer is issued after it.
C12_NothingOutstandingAtReturn ==
  pc = "done" =>
    /\ out_pending = {}
    /\ out_issued = Len(AllCopyOuts)
    /\ \A k \in 1..Len(AllCopyOuts) :
         Performed(AllCopyOuts[k]) =>
           <<AllCopyOuts[k].bref, AllCopyOuts[k].step>> \in Landed
    /\ ops[Len(ops)].op = "wait_smem_to_gmem"
    /\ ops[Len(ops)].arg = <<0>>
    /\ \A k \in 1..(Len(ops) - 1) :
         ~(ops[k].op = "wait_smem_to_gmem" /\ ops[k].at = "epilogue")

C12_Witness ==
  /\ pc = "done"
  /\ max_concurrent_steps = 2
  /\ \E k \in 1..Len(ops) : ops[k].op = "copy_out" /\ ops[k].at = "epilogue"
  /\ \E k \in 1..Len(ops) :
       ops[k].op = "copy_out" /\ ops[k].at = "loop" /\ Performed(ops[k])
  /\ Cardinality(stored) >= 3

\* ------------------------------------------------------------ _inc_grid alone
\* _inc_grid as a pure function: any grid of positive sizes, any in-range
\* index tuple, and a chain of calls each advancing by some by >= 0.
IncGrids ==
  {<<n>> : n \in 1..MaxIncAxis}
    \cup {<<m, n>> : m \in 1..MaxIncAxis, n \in 1..MaxIncAxis}
    \cup {<<2, 2, 2>>}

IncCall(indices_, by, result) ==
  [op |-> "inc_grid", indices |-> indices_, by |-> by, result |-> result]

IncInit ==
  /\ grid \in IncGrids
  /\ indices \in GridPoints
  /\ pc = "inc_grid"
  /\ ops = <<>>
  /\ requested = 1
  /\ max_concurrent_steps = 1
  /\ in_specs = <<>>
  /\ out_specs = <<>>
  /\ step = 0
  /\ last_store_slices = <<>>
  /\ in_smem = <<>>
  /\ out_smem = <<>>
  /\ out_gmem = <<>>
  /\ barrier = <<>>
  /\ in_flight = {}
  /\ out_pending = {}
  /\ out_issued = 0
  /\ stored = {}

IncGridCall ==
  /\ pc = "inc_grid"
  /\ Len(ops) < MaxCalls
  /\ \E by \in 0..MaxBy :
       /\ indices' = inc_grid(indices, grid, by)
       /\ ops' = Append(ops, IncCall(indices, by, inc_grid(indices, grid, by)))
  /\ UNCHANGED <<args, pc, step, last_store_slices, in_smem, out_smem, out_gmem,
                 barrier, in_flight, out_pending, out_issued, stored>>

IncNext == IncGridCall

SpecIncGrid == IncInit /\ [][IncNext]_vars

RECURSIVE SumBy(_)
SumBy(calls) == IF calls = <<>> THEN 0 ELSE Head(calls).by + SumBy(Tail(calls))

\* C13: _inc_grid is additive: advancing by a and then by b gives the same
\* indices as advancing once by a + b, also when a + b reaches or exceeds the
\* number of grid points.
C13_IncGridAdditive ==
  Len(ops) >= 1 =>
    /\ indices = inc_grid(ops[1].indices, grid, SumBy(ops))
    /\ \A k \in 2..Len(ops) :
         /\ ops[k].indices = ops[k - 1].result
         /\ ops[k].result =
              inc_grid(ops[k - 1].indices, grid, ops[k - 1].by + ops[k].by)

C13_Witness ==
  /\ pc = "inc_grid"
  /\ Len(ops) = 2
  /\ grid = <<3, 2>>
  /\ ops[1].by > 0
  /\ ops[2].by > 0
  /\ ops[1].by < Prod(grid)
  /\ ops[2].by < Prod(grid)
  /\ Linear(ops[1].indices, grid) + ops[1].by + ops[2].by >= Prod(grid)
  /\ indices # ops[1].indices

\* The axes of a call on which idx + carry reached 2 * size, so that the
\* division/remainder path was taken.
RECURSIVE SlowAxes(_, _, _, _)
SlowAxes(indices_, grid_, k, carry) ==
  IF k = 0 THEN {}
  ELSE (IF indices_[k] + carry >= 2 * grid_[k] THEN {k} ELSE {})
         \cup SlowAxes(indices_, grid_, k - 1, IncAxis(indices_[k] + carry, grid_[k])[2])

\* C14: _inc_grid returns the mixed-radix digits of
\* (linear(indices) + by) mod product(grid), the carry out of the first axis
\* being dropped, and on every axis the compare-and-subtract path and the
\* division/remainder path give the same digit and carry wherever the first
\* one applies.
C14_IncGridMixedRadix ==
  /\ \A k \in 1..Len(ops) :
       /\ ops[k].result =
            product(grid, (Linear(ops[k].indices, grid) + ops[k].by) % Prod(grid))
       /\ \A a \in 1..Len(grid) : ops[k].result[a] \in 0..(grid[a] - 1)
  /\ \A a \in 1..Len(grid) :
       \A idx \in 0..(2 * grid[a] - 1) :
         IncAxisFast(idx, grid[a]) = IncAxisSlow(idx, grid[a])

C14_Witness ==
  /\ pc = "inc_grid"
  /\ Len(ops) >= 1
  /\ Len(grid) = 2
  /\ SlowAxes(ops[1].indices, grid, Len(grid), ops[1].by) = {2}
  /\ Linear(ops[1].indices, grid) + ops[1].by >= Prod(grid)
  /\ grid[1] > 1
  /\ grid[2] > 1

\* ------------------------------------------------------------ the main loop
\* The destination region of output o at step s, from the s-th grid
\* coordinate in row-major order.
RegionOfStep(o, s) == compute_gmem_slice(out_specs[o], grid, product(grid, s))

\* C15: the copy_out of a non-index-invariant output at step s has a false
\* predicate exactly when s > 0, s is not the last step and the region of
\* step s equals the region of step s - 1 in every dimension; the slices
\* carried to the next step are the region of step s, whether or not the copy
\* was performed.
C15_SuppressedIffSameRegion ==
  \A o \in NonInvariantOutputs :
    /\ \A k \in 1..Len(LoopStores(o)) :
         LET e == LoopStores(o)[k]
         IN  /\ e.step = k - 1
             /\ e.slices = RegionOfStep(o, e.step)
             /\ e.predicate \in {"True", "False"}
             /\ (e.predicate = "False") <=>
                  /\ e.step > 0
                  /\ e.step # num_steps - 1
                  /\ \A d \in 1..Len(e.slices) :
                       /\ RegionOfStep(o, e.step)[d].start = RegionOfStep(o, e.step - 1)[d].start
                       /\ RegionOfStep(o, e.step)[d].size = RegionOfStep(o, e.step - 1)[d].size
    /\ (InLoop /\ BodiesDone > 0 /\ pc # "store") =>
         /\ Len(LoopStores(o)) = BodiesDone
         /\ last_store_slices[o] = RegionOfStep(o, BodiesDone - 1)

C15_Witness ==
  /\ pc = "fetch"
  /\ step = 1
  /\ num_steps = 4
  /\ \E o \in NonInvariantOutputs :
       /\ Len(LoopStores(o)) = 2
       /\ LoopStores(o)[1].predicate = "True"
       /\ LoopStores(o)[2].predicate = "False"
       /\ RegionOfStep(o, 2) # RegionOfStep(o, 1)
       /\ last_store_slices[o] = RegionOfStep(o, 1)

\* The copy_in calls issued so far for input i into scratch slot sl.
CopyInsInto(i, sl) == SelectSeq(CopyIns, LAMBDA e : e.bref = i /\ e.slot = sl)

\* C16: when the body runs at step s with at least one input, the scratch
\* slot s mod depth of every input holds the bulk tile addressed by the s-th
\* grid coordinate: the copy_in for step s (from the prologue when s < depth,
\* from the prefetch otherwise) is the last one issued into that slot and it
\* has completed, with no copy into that slot still in flight.
C16_InputsReadyAtBody ==
  (pc \in {"wait_smem_to_gmem", "body"} /\ NumIn > 0) =>
    /\ slot = step % max_concurrent_steps
    /\ \A t \in in_flight : t.slot # slot
    /\ \A i \in 1..NumIn :
         LET L == CopyInsInto(i, slot)
         IN  /\ in_smem[i][slot] =
                  InBulk(i, compute_gmem_slice(in_specs[i], grid, product(grid, step)))
             /\ Len(L) = (step \div max_concurrent_steps) + 1
             /\ L[Len(L)].step = step
             /\ L[Len(L)].arg = product(grid, step)
             /\ (L[Len(L)].at = "prologue") <=> (step < max_concurrent_steps)

C16_Witness ==
  /\ pc = "body"
  /\ NumIn = 2
  /\ max_concurrent_steps = 2
  /\ step = 3
  /\ in_smem[1][slot] = InBulk(1, compute_gmem_slice(SpecLin, grid, product(grid, 3)))
  /\ \E t \in in_flight : t.slot # slot

Commits(at) == SelectSeq(ops, LAMBDA e : e.op = "commit_smem" /\ e.at = at)

\* Iterations of loop_body whose commit and copy_out calls have been issued.
StoresDone == IF pc = "fetch" THEN step + 1 ELSE step

\* C17: every copy_out, of the loop or of the epilogue, comes after a
\* commit_smem with no body call between the commit and the copy; each loop
\* iteration issues one commit exactly when some output is not
\* index-invariant, and the epilogue issues one commit exactly when every
\* output is index-invariant.
C17_CommitBeforeCopyOut ==
  /\ \A k \in 1..Len(ops) :
       ops[k].op = "copy_out" =>
         \E j \in 1..(k - 1) :
           /\ ops[j].op = "commit_smem"
           /\ \A b \in j..k : ops[b].op # "body"
  /\ \A s \in 0..(StoresDone - 1) :
       Cardinality({k \in 1..Len(Commits("loop")) : Commits("loop")[k].step = s})
         = (IF NonInvariantOutputs # {} THEN 1 ELSE 0)
  /\ Len(Commits("loop")) <= num_steps
  /\ pc \in {"finalize", "done"} =>
       Len(Commits("epilogue")) = (IF NonInvariantOutputs = {} THEN 1 ELSE 0)
  /\ pc \notin {"finalize", "done"} => Commits("epilogue") = <<>>

C17_Witness ==
  /\ pc = "done"
  /\ NonInvariantOutputs # {}
  /\ InvariantOutputs # {}
  /\ num_steps = 3
  /\ Len(Commits("loop")) = 3
  /\ Commits("epilogue") = <<>>
  /\ \E k \in 1..Len(ops) : ops[k].op = "copy_out" /\ ops[k].at = "epilogue"

Round(sl) == barrier[sl] + Cardinality({t \in in_flight : t.slot = sl})

Slots == 0..(max_concurrent_steps - 1)

BarrierRounds ==
  /\ (pc = "barrier_wait") => Round(slot) = NumIn
  /\ (InLoop /\ NumIn > 0) =>
       \A sl \in Slots :
         /\ Round(sl) \in {0, NumIn}
         /\ barrier[sl] <= NumIn
  /\ (pc = "done") =>
       /\ step = num_steps
       /\ Len(Bodies) = num_steps
       /\ in_flight = {}
       /\ \A sl \in Slots : barrier[sl] = 0

\* C19: provided every issued transfer eventually completes, the pipeline
\* reaches its return after num_steps iterations and the epilogue; at every
\* barrier_wait exactly one round of len(in_specs) copies into the slot has
\* been issued and not yet consumed, so that no barrier ever receives fewer
\* or more than len(in_specs) arrivals between two waits on it.
C19_TerminatesWithExactRounds == []BarrierRounds /\ <>(pc = "done")

C19_Witness ==
  /\ pc = "barrier_wait"
  /\ NumIn = 2
  /\ max_concurrent_steps = 2
  /\ step = 2
  /\ barrier[slot] = 1
  /\ Round(slot) = 2
  /\ Round(1) = 2

\* C20: at no time are two performed copy_out transfers to the same bulk
\* region of the same output outstanding together, so that what a region
\* ends with does not depend on the order in which outstanding write-backs
\* complete.
C20_NoTwoOutstandingToSameRegion ==
  \A t1 \in out_pending :
    \A t2 \in out_pending :
      (t1 # t2 /\ t1.bref = t2.bref) => t1.slices # t2.slices

====
